---- MODULE Spec2Model ----
(***************************************************************************)
(* DouyinHelper: the Douyin feed fetcher and sequential downloader of      *)
(* douyin_youtube_tool.py, the resumable uploader of youtube_uploader.py   *)
(* and the authentication / batch-upload glue of douyin_youtube_tool.py,   *)
(* as one state machine per subsystem over a shared set of variables.      *)
(***************************************************************************)
EXTENDS Integers, Sequences, FiniteSets, TLC

\* ---------------------------------------------------------------- bounds
\* Most entries a feed page carries.
MaxItems == 2
\* Most playable entries the feed serves to one analysis run.
MaxFeed == 2
\* Analysis threads alive at once.
MaxAThreads == 1
\* Download threads alive at once.
MaxDThreads == 2
\* Download batches per session (video_files is never emptied).
MaxBatches == 2
\* Unfinished answers of next_chunk within one upload.
MaxProgress == 1

\* ------------------------------------------------------ program constants
\* while page <= 5
PageCap == 5
\* if retry > 5
MaxRetries == 5

VARIABLES
    video_urls,       \* DouyinYouTubeTool.video_urls: the discovered URLs
    video_tree,       \* rows of the result table: the index label of each
    download_btn,     \* state of the Download All button
    is_downloading,   \* DouyinYouTubeTool.is_downloading
    video_files,      \* DouyinYouTubeTool.video_files: downloaded-file records
    disk,             \* download folder: filename -> "partial" or "full"
    upload_tree,      \* rows of the upload table: filename, tick
    selected_videos,  \* DouyinYouTubeTool.selected_videos
    batches,          \* download batches started so far
    an,               \* analysis threads: position and locals of analyze_url
    dl,               \* download threads: position and locals of download_videos
    youtube,          \* YouTubeUploader.youtube: "None" or the API client
    up,               \* the upload_video call: position, locals and outcome
    tab,              \* the tab shown: "download" or "upload"
    api,              \* the YouTubeAPI object behind youtube_uploader
    upload_calls,     \* the upload_video calls of the last Upload Selected
    upload_report,    \* the counters it reported
    token_json,       \* whether the file token.json exists
    youtube_api,      \* DouyinYouTubeTool.youtube_api: "unset" or "None"
    auth_status_var,  \* the status line of the settings tab
    auth_log,         \* the last authenticate_youtube and the logout before it
    scan,             \* one feed page going through the entry loop of analyze_url
    curl,             \* the cURL box, the URL field and the headers box
    meta,             \* one upload call: its arguments and the snippet it sends
    today,            \* one get_todays_uploads call: the page and its traversal
    batch,            \* one upload batch: its loop position and counters
    opt,              \* one upload_optimized_video call: the files and its outcome
    presets,          \* video_quality_settings and the last optimize call
    tagbatch          \* one batch that passes one tags list to every upload

feedVars == <<video_urls, video_tree, download_btn, is_downloading,
              video_files, disk, upload_tree, selected_videos, batches, an, dl>>

uploaderVars == <<youtube, up>>

toolVars == <<tab, api, upload_calls, upload_report, token_json, youtube_api,
              auth_status_var, auth_log>>

libVars == <<scan, curl, meta, today>>

labVars == <<batch, opt, presets, tagbatch>>

vars == <<feedVars, uploaderVars, toolVars, libVars, labVars>>

Min(a, b) == IF a <= b THEN a ELSE b

\* ------------------------------------------------------------------ URLs
\* A URL is a string, kept as a sequence of pieces: the piece "http" stands
\* for the four letters h-t-t-p, "s" for the letter s, the others for text
\* that holds neither.
startswith_https(url) ==
    Len(url) >= 2 /\ url[1] = "http" /\ url[2] = "s"

\* str.replace('http', 'https'): every occurrence of http gets an s after it.
RECURSIVE replace_http(_)
replace_http(url) ==
    IF url = <<>> THEN <<>>
    ELSE IF Head(url) = "http" THEN <<"http", "s">> \o replace_http(Tail(url))
    ELSE <<Head(url)>> \o replace_http(Tail(url))

\* The raw play addresses the feed serves.
Urls == { <<"http", "a">>, <<"http", "s", "b">> }

\* One aweme_list entry: whether the nesting video.play_addr.url_list is
\* there, and the url_list itself.
Items ==
    { [shape |-> "no_video", url_list |-> <<>>] }
    \cup { [shape |-> "ok", url_list |-> <<u>>] : u \in Urls }

\* None, and the empty string: both are falsy in `if video_url:`.
NoUrl == <<>>

extract_video_url(video_data) ==
    IF video_data.shape = "ok" /\ video_data.url_list # <<>>
    THEN LET url == video_data.url_list[1]
         IN  IF ~startswith_https(url) THEN replace_http(url) ELSE url
    ELSE NoUrl

\* The URLs a page adds to video_urls, in page order.
RECURSIVE page_urls(_)
page_urls(aweme_list) ==
    IF aweme_list = <<>> THEN <<>>
    ELSE LET video_url == extract_video_url(Head(aweme_list))
         IN  (IF video_url # NoUrl THEN <<video_url>> ELSE <<>>)
             \o page_urls(Tail(aweme_list))

\* ------------------------------------------------------------ the feed API
CursorVals == {0, 7}

SeqsUpTo(S, n) == UNION { [1..k -> S] : k \in 0..n }

\* What fetch_api_data returns: None (transport error, non-200), a JSON
\* object without aweme_list, or a page; `room` is how many playable entries
\* the feed still holds.
FetchResults ==
    [room \in 0..MaxFeed |->
        { [kind |-> k, aweme_list |-> <<>>, has_more |-> FALSE, max_cursor |-> 0]
            : k \in {"none", "no_list"} }
        \cup
        { [kind |-> "page", aweme_list |-> l, has_more |-> h, max_cursor |-> c]
            : l \in { x \in SeqsUpTo(Items, MaxItems) :
                        Len(page_urls(x)) <= room },
              h \in BOOLEAN, c \in CursorVals }]

\* The text of the URL field when Analyze is clicked.
UrlInputs == {"empty", "not_api", "no_user_id", "ok"}

\* What one download meets: a 200 answer fully written; another status; an
\* error before the file is opened; an error after it is opened.
DownloadOutcomes == {"ok", "bad_status", "request_error", "write_error"}

\* ---------------------------------------------------------------- threads
AThreads == 1..MaxAThreads
DThreads == 1..MaxDThreads

\* reqs, first_no_more and all_ok record the run's page requests: how many,
\* the first page answered without has_more (0: none yet), and whether every
\* fetch so far gave a page; found counts the URLs the run appended.
\* body is the max_cursor of the last page received (-1: none yet);
\* cursor_ok tells whether every
\* request so far carried 0 when it was the first and the max_cursor of the
\* page before it otherwise.
AnIdle ==
    [pc |-> "idle", page |-> 1, max_cursor |-> 0, found |-> 0,
     reqs |-> 0, first_no_more |-> 0, all_ok |-> TRUE,
     body |-> -1, cursor_ok |-> TRUE]

\* attempts records, for each download_single_video call of the batch, whether
\* a 200 answer was fully written; row is what items[i] refers to: "none"
\* when i is past the rows read, "live" for a row of the table, "gone" for a
\* row deleted since.
DlIdle ==
    [pc |-> "idle", i |-> 0, url |-> NoUrl, successful |-> 0, failed |-> 0,
     row |-> "none", raised |-> FALSE, attempts |-> <<>>]

Running(pc) == pc \notin {"idle", "done"}

\* No background thread is at work.
Quiet ==
    /\ \A t \in AThreads : ~Running(an[t].pc)
    /\ \A t \in DThreads : ~Running(dl[t].pc)

\* A thread that has returned is gone with its locals.
Reap(threads, idle) ==
    [t \in DOMAIN threads |->
        IF threads[t].pc = "done" THEN idle ELSE threads[t]]

\* The first free slot.
FreeSlot(threads, t) ==
    /\ ~Running(threads[t].pc)
    /\ \A u \in DOMAIN threads : u < t => Running(threads[u].pc)

InitFeed ==
    /\ video_urls = <<>>
    /\ video_tree = <<>>
    /\ download_btn = "disabled"
    /\ is_downloading = FALSE
    /\ video_files = <<>>
    /\ disk = <<>>
    /\ upload_tree = <<>>
    /\ selected_videos = {}
    /\ batches = 0
    /\ an = [t \in AThreads |-> AnIdle]
    /\ dl = [t \in DThreads |-> DlIdle]

\* ------------------------------------------------------------ analyze_url
\* A loop that lets one more page through.
page_in_range_6(page) == page <= PageCap + 1

\* while page <= 5
page_in_range(page) == page <= PageCap

\* if not has_more: break
stop_after_page(has_more) == ~has_more

\* What analyze_url does after the page loop: with any URL in the list,
\* Download All is enabled.
button_after_analysis(urls, btn) == IF urls # <<>> THEN "normal" ELSE btn

\* What is left of a run that has returned: its record of requests.
AnDone(a) ==
    [AnIdle EXCEPT !.pc = "done", !.reqs = a.reqs,
                   !.first_no_more = a.first_no_more, !.all_ok = a.all_ok,
                   !.cursor_ok = a.cursor_ok]

\* The query of the pasted URL: it may carry a cursor of its own.
BaseUrl == [max_cursor |-> 7, sec_user_id |-> "user"]

\* extract_user_id_from_api_url
extract_user_id_from_api_url(url) == url.sec_user_id

\* update_url_with_params: the two parameters are replaced in the query.
update_url_with_params(base_url, max_cursor, sec_user_id) ==
    [base_url EXCEPT !.max_cursor = max_cursor, !.sec_user_id = sec_user_id]

\* A loop that never takes the cursor of the page.
cursor_after_kept(max_cursor, data) == max_cursor

\* max_cursor = data.get('max_cursor', 0), reached only with a page.
cursor_after(max_cursor, data) ==
    IF data.kind = "page" THEN data.max_cursor ELSE max_cursor

\* Analyze clicked: a thread runs analyze_url up to the page loop; the rows
\* of the result table are deleted and video_urls is cleared in place.
analyze_url_thread(t) ==
    /\ UNCHANGED <<uploaderVars, toolVars, libVars, labVars>>
    /\ FreeSlot(an, t)
    /\ \E url \in UrlInputs :
        IF url # "ok"
        THEN /\ an' = Reap(an, AnIdle)
             /\ dl' = Reap(dl, DlIdle)
             /\ UNCHANGED <<video_urls, video_tree, download_btn>>
        ELSE /\ video_tree' = <<>>
             /\ video_urls' = <<>>
             /\ an' = [Reap(an, AnIdle) EXCEPT ![t] =
                          IF page_in_range(1)
                          THEN [AnIdle EXCEPT !.pc = "fetch"]
                          ELSE AnDone(AnIdle)]
             /\ download_btn' = IF page_in_range(1) THEN download_btn
                                ELSE button_after_analysis(<<>>, download_btn)
             /\ dl' = [u \in DThreads |->
                          IF Running(dl[u].pc)
                          THEN [dl[u] EXCEPT !.row = IF @ = "live" THEN "gone"
                                                     ELSE @]
                          ELSE DlIdle]
    /\ UNCHANGED <<is_downloading, video_files, disk,
                   upload_tree, selected_videos, batches>>

\* Rows numbered from 1 on every page.
new_rows_per_page(len, n) == [k \in 1..n |-> k]

\* The rows a page adds to the result table: index = len(self.video_urls)
\* right after each append.
new_rows(len, n) == [k \in 1..n |-> len + k]

\* A list that starts again with every page.
urls_after_reset(urls, found) == found

\* self.video_urls.append(video_url), for each entry that gave a URL.
urls_after(urls, found) == urls \o found

\* One turn of the page loop: update_url_with_params, fetch_api_data, the
\* entries of aweme_list appended, and the has_more / page-cap decision; when
\* the loop ends, the rest of analyze_url.
analyze_page(t) ==
    /\ UNCHANGED <<uploaderVars, toolVars, libVars, labVars>>
    /\ an[t].pc = "fetch"
    /\ \E data \in FetchResults[MaxFeed - an[t].found] :
        LET found == IF data.kind = "page" THEN page_urls(data.aweme_list)
                     ELSE <<>>
            again == /\ data.kind = "page"
                     /\ ~stop_after_page(data.has_more)
                     /\ page_in_range(an[t].page + 1)
            current_url ==
                update_url_with_params(BaseUrl, an[t].max_cursor,
                                       extract_user_id_from_api_url(BaseUrl))
            a == [an[t] EXCEPT
                    !.reqs = @ + 1,
                    !.all_ok = @ /\ data.kind = "page",
                    !.max_cursor = cursor_after(@, data),
                    !.body = IF data.kind = "page" THEN data.max_cursor
                             ELSE @,
                    !.cursor_ok =
                        @ /\ current_url.max_cursor =
                               (IF an[t].reqs = 0 THEN 0 ELSE an[t].body),
                    !.found = @ + Len(found),
                    !.first_no_more =
                        IF data.kind = "page" /\ ~data.has_more /\ @ = 0
                        THEN an[t].reqs + 1 ELSE @,
                    !.page = IF again THEN @ + 1 ELSE @]
        IN  /\ video_urls' = urls_after(video_urls, found)
            /\ video_tree' = video_tree \o new_rows(Len(video_urls), Len(found))
            /\ an' = [an EXCEPT ![t] = IF again THEN a ELSE AnDone(a)]
            /\ download_btn' =
                 IF again THEN download_btn
                 ELSE button_after_analysis(video_urls \o found, download_btn)
    /\ UNCHANGED <<is_downloading, video_files, disk,
                   upload_tree, selected_videos, batches, dl>>

\* -------------------------------------------------------- download_videos
\* update_upload_list: the upload table is rebuilt from video_files, one
\* ticked row per record whose file exists in the download folder.
RECURSIVE upload_rows(_, _)
upload_rows(files, d) ==
    IF files = <<>> THEN <<>>
    ELSE IF Head(files).filename \in DOMAIN d
         THEN <<[filename |-> Head(files).filename, select |-> TRUE]>>
              \o upload_rows(Tail(files), d)
         ELSE upload_rows(Tail(files), d)

\* selected_videos after update_upload_list.
upload_selected(files, d) ==
    { files[k].filename :
        k \in { j \in 1..Len(files) : files[j].filename \in DOMAIN d } }

\* What is left of a batch that has returned: its report.
DlDone(d) ==
    [DlIdle EXCEPT !.pc = "done",
                   !.successful = d.successful, !.failed = d.failed,
                   !.raised = d.raised, !.attempts = d.attempts]

\* Download All clicked: a thread runs download_videos up to its loop.
download_videos_thread(t) ==
    /\ UNCHANGED <<uploaderVars, toolVars, libVars, labVars>>
    /\ download_btn = "normal"
    /\ batches < MaxBatches
    /\ FreeSlot(dl, t)
    /\ an' = Reap(an, AnIdle)
    /\ IF video_urls = <<>>
       THEN /\ dl' = [Reap(dl, DlIdle) EXCEPT ![t] = DlDone(DlIdle)]
            /\ UNCHANGED <<is_downloading, download_btn, batches>>
       ELSE /\ is_downloading' = TRUE
            /\ download_btn' = "disabled"
            /\ batches' = batches + 1
            /\ dl' = [Reap(dl, DlIdle) EXCEPT ![t] =
                        [DlIdle EXCEPT !.pc = "loop"]]
    /\ UNCHANGED <<video_urls, video_tree, video_files, disk, upload_tree,
                   selected_videos>>

\* The finally block of download_videos: the flag is cleared, the button
\* enabled, the upload table rebuilt from video_files.
download_finally(files, d) ==
    /\ is_downloading' = FALSE
    /\ download_btn' = "normal"
    /\ upload_tree' = upload_rows(files, d)
    /\ selected_videos' = upload_selected(files, d)

\* The head of `for i, url in enumerate(self.video_urls)`, over the live
\* list: the row of the next item is set to Downloading and its request
\* begins, or the loop is over and the finally block runs.
download_next(t) ==
    /\ UNCHANGED <<uploaderVars, toolVars, libVars, labVars>>
    /\ dl[t].pc = "loop"
    /\ IF dl[t].i < Len(video_urls)
       THEN /\ dl' = [dl EXCEPT ![t].pc = "request",
                                ![t].url = video_urls[dl[t].i + 1],
                                ![t].row = IF dl[t].i < Len(video_tree)
                                           THEN "live" ELSE "none"]
            /\ video_tree' =
                 IF dl[t].i < Len(video_tree)
                 THEN [video_tree EXCEPT ![dl[t].i + 1] = dl[t].i + 1]
                 ELSE video_tree
            /\ UNCHANGED <<is_downloading, download_btn, upload_tree,
                           selected_videos>>
       ELSE /\ dl' = [dl EXCEPT ![t] = DlDone(dl[t])]
            /\ UNCHANGED video_tree
            /\ download_finally(video_files, disk)
    /\ UNCHANGED <<video_urls, video_files, disk, batches, an>>

\* f"{n:03d}": the decimal digits of n, zero-padded to three.
RECURSIVE digits(_)
digits(n) == IF n < 10 THEN <<n>> ELSE Append(digits(n \div 10), n % 10)

format_03d(n) ==
    LET ds == digits(n)
    IN  IF Len(ds) >= 3 THEN ds ELSE [k \in 1..(3 - Len(ds)) |-> 0] \o ds

\* filename = f"video_{i + 1:03d}.mp4"
filename_of(i) == <<"video_">> \o format_03d(i + 1) \o <<".mp4">>

\* successful += 1 / failed += 1
successful_after(successful, result) ==
    IF result THEN successful + 1 ELSE successful

\* A failure that is not counted.
failed_after_lost(failed, result) == failed

failed_after(failed, result) == IF result THEN failed ELSE failed + 1

\* True as soon as the file was opened.
download_result_opened(outcome) == outcome \in {"ok", "write_error"}

\* download_single_video returns True only after a 200 answer was written.
download_result(outcome) == outcome = "ok"

\* What download_single_video leaves on disk at file_path.
disk_after(d, file_path, outcome) ==
    IF outcome = "ok" THEN (file_path :> "full") @@ d
    ELSE IF outcome = "write_error" THEN (file_path :> "partial") @@ d
    ELSE d

\* if self.download_single_video(...): the record is appended
record_file(files, filename, result) ==
    IF result THEN Append(files, [filename |-> filename]) ELSE files

\* One download_single_video call and the rest of the loop body. Updating a
\* row that was deleted meanwhile raises, which ends the loop: the finally
\* block runs.
download_single_video(t) ==
    /\ UNCHANGED <<uploaderVars, toolVars, libVars, labVars>>
    /\ dl[t].pc = "request"
    /\ \E outcome \in DownloadOutcomes :
        LET index == dl[t].i + 1
            result == download_result(outcome)
            row_gone == dl[t].row = "gone"
            d == [dl[t] EXCEPT
                    !.successful = successful_after(@, result),
                    !.failed = failed_after(@, result),
                    !.attempts = Append(@, outcome = "ok"),
                    !.raised = row_gone,
                    !.i = @ + 1,
                    !.row = "none",
                    !.pc = "loop"]
            filename == filename_of(dl[t].i)
            files == record_file(video_files, filename, result)
            on_disk == disk_after(disk, filename, outcome)
        IN  /\ disk' = on_disk
            /\ video_files' = files
            /\ video_tree' =
                 IF dl[t].row = "live"
                 THEN [video_tree EXCEPT ![index] = index]
                 ELSE video_tree
            /\ IF row_gone
               THEN /\ dl' = [dl EXCEPT ![t] = DlDone(d)]
                    /\ download_finally(files, on_disk)
               ELSE /\ dl' = [dl EXCEPT ![t] = d]
                    /\ UNCHANGED <<is_downloading, download_btn, upload_tree,
                                   selected_videos>>
    /\ UNCHANGED <<video_urls, batches, an>>

Download(t) == download_next(t) \/ download_single_video(t)

\* ------------------------------------------------- youtube_uploader.py
\* What one insert_request.next_chunk() call does: it raises HttpError with a
\* status, raises another exception, returns (status, None) with the transfer
\* unfinished, or returns a response with or without an id.
HttpStatuses == {400, 500, 501, 502, 503, 504}

ChunkOutcomes ==
    { [kind |-> "http", status |-> s] : s \in HttpStatuses }
    \cup { [kind |-> k, status |-> 0]
             : k \in {"exception", "progress", "id", "no_id"} }

\* What the videos().list query for the new id does: items holds the video,
\* items is empty, or the query raises.
Followups == {"found", "empty", "raises"}

NoResult == [success |-> FALSE, video_id |-> "none", error |-> <<>>,
             warning |-> FALSE, returned |-> FALSE]

Success(warning) ==
    [success |-> TRUE, video_id |-> "id", error |-> <<>>,
     warning |-> warning, returned |-> TRUE]

\* {'success': False, 'error': f"{prefix}{e}"}
Failure(prefix, e) ==
    [success |-> FALSE, video_id |-> "none", error |-> <<prefix, e>>,
     warning |-> FALSE, returned |-> TRUE]

\* The call in progress: chunks lists what each next_chunk call did, followup
\* what the videos().list query did ("none": not issued), backoff the last
\* time.sleep.
UpIdle ==
    [pc |-> "idle", retry |-> 0, chunks |-> <<>>, followup |-> "none",
     backoff |-> 0, raised |-> "none", result |-> NoResult]

InitUploader ==
    /\ youtube = "None"
    /\ up = UpIdle

\* YouTubeUploader.authenticate: self.youtube is built, unless loading the
\* token or the flow raises.
authenticate ==
    /\ up.pc # "chunk"
    /\ youtube = "None"
    /\ \E ok \in BOOLEAN : youtube' = IF ok THEN "service" ELSE youtube
    /\ UNCHANGED <<up, feedVars, toolVars, libVars, labVars>>

\* The checks upload_video makes before it builds the request.
upload_video_raises(yt, file_exists, size_ok) ==
    IF yt = "None" THEN "Not authenticated"
    ELSE IF ~file_exists THEN "FileNotFoundError"
    ELSE IF ~size_ok THEN "File too large"
    ELSE "none"

\* upload_video up to the call of _resumable_upload.
upload_video ==
    /\ up.pc # "chunk"
    /\ \E file_exists \in BOOLEAN, size_ok \in BOOLEAN :
        LET e == upload_video_raises(youtube, file_exists, size_ok)
        IN  up' = IF e # "none"
                  THEN [UpIdle EXCEPT !.pc = "raised", !.raised = e]
                  ELSE [UpIdle EXCEPT !.pc = "chunk"]
    /\ UNCHANGED <<youtube, feedVars, toolVars, libVars, labVars>>

\* Retries given up one too early.
retries_exceeded_early(retry) == retry >= MaxRetries

\* if retry > 5
retries_exceeded(retry) == retry > MaxRetries

\* Every 5xx status taken as retriable.
is_retriable_5xx(status) == status \in 500..599

\* if e.resp.status in [500, 502, 503, 504]
is_retriable(status) == status \in {500, 502, 503, 504}

RECURSIVE pow2(_)
pow2(n) == IF n = 0 THEN 1 ELSE 2 * pow2(n - 1)

\* What _resumable_upload returns for a response with an id.
id_result(followup) ==
    IF followup = "found" THEN Success(FALSE)
    ELSE IF followup = "empty"
    THEN Failure("Video uploaded but not found in channel", "")
    ELSE Success(TRUE)

Progress(chunks) == { k \in DOMAIN chunks : chunks[k].kind = "progress" }

\* One turn of `while response is None` in _resumable_upload.
next_chunk ==
    /\ up.pc = "chunk"
    /\ \E o \in ChunkOutcomes, f \in Followups :
        /\ o.kind = "progress" => Cardinality(Progress(up.chunks)) < MaxProgress
        /\ LET u == [up EXCEPT !.chunks = Append(@, o)]
               done(r) == [u EXCEPT !.pc = "done", !.result = r]
           IN  up' =
                 CASE o.kind = "progress" -> u
                   [] o.kind = "id" -> [done(id_result(f)) EXCEPT !.followup = f]
                   [] o.kind = "no_id" -> done(Failure("Upload failed: ", o))
                   [] o.kind = "exception" ->
                        done(Failure("Unexpected error: ", o))
                   [] o.kind = "http" /\ ~is_retriable(o.status) ->
                        done(Failure("HTTP Error: ", o))
                   [] o.kind = "http" /\ is_retriable(o.status) ->
                        IF retries_exceeded(up.retry + 1)
                        THEN [done(Failure("Max retries exceeded: ", o))
                                 EXCEPT !.retry = @ + 1]
                        ELSE [u EXCEPT !.retry = @ + 1,
                                       !.backoff = pow2(up.retry + 1)]
    /\ UNCHANGED <<youtube, feedVars, toolVars, libVars, labVars>>


\* ------------------------------------------- YouTubeAPI and the upload tab
\* YouTubeAPI.__init__
ApiInit ==
    [youtube |-> "None", authenticated |-> FALSE, auth_method |-> "None",
     credentials |-> FALSE]

InitTool ==
    /\ tab = "download"
    /\ api = ApiInit
    /\ upload_calls = <<>>
    /\ upload_report = [successful |-> 0, failed |-> 0, shown |-> FALSE]
    /\ token_json = FALSE
    /\ youtube_api = "unset"
    /\ auth_status_var = "unset"
    /\ auth_log = [logged_out |-> FALSE, report |-> "none",
                   after_logout |-> FALSE]

\* YouTubeAPI.authenticate: with valid credentials the client is built for
\* full access; otherwise nothing changes and False is returned.
api_authenticate(a, ok) ==
    IF ok THEN [youtube |-> "service", authenticated |-> TRUE,
                auth_method |-> "oauth", credentials |-> TRUE]
    ELSE a

\* YouTubeAPI.authenticate_with_api_key: a reserved key gives the demo mode,
\* another one a read-only client unless building it raises.
api_authenticate_with_api_key(a, api_key, ok) ==
    IF api_key = "demo"
    THEN [a EXCEPT !.youtube = "demo_service", !.authenticated = TRUE,
                   !.auth_method = "demo"]
    ELSE IF ok
    THEN [a EXCEPT !.youtube = "service", !.authenticated = TRUE,
                   !.auth_method = "api_key"]
    ELSE a

\* The demo mode set from outside the class: auth_method stays as it was.
demo_mode(a) == [a EXCEPT !.youtube = "demo_service", !.authenticated = TRUE]

\* YouTubeAPI.authenticate leaves token.json in place and writes it after a
\* flow or a refresh.
token_after(token, ok) == token \/ ok

\* auto_oauth_login: OAuth, and the demo mode when it fails.
auto_oauth_login(a, ok) ==
    IF ok THEN api_authenticate(a, ok) ELSE demo_mode(a)

\* A tab button: showing the upload tab logs in when no client is set.
switch_tab(tab_name) ==
    /\ tab' = tab_name
    /\ \E ok \in BOOLEAN :
        /\ api' = IF tab_name = "upload" /\ api.youtube = "None"
                  THEN auto_oauth_login(api, ok) ELSE api
        /\ token_json' = IF tab_name = "upload" /\ api.youtube = "None"
                         THEN token_after(token_json, ok) ELSE token_json
    /\ UNCHANGED <<feedVars, uploaderVars, libVars, labVars, upload_calls, upload_report,
                   youtube_api, auth_status_var, auth_log>>

ApiKeys == {"", "demo", "key"}

\* The Login button of the upload tab: authenticate_youtube.
authenticate_youtube ==
    /\ tab = "upload"
    /\ \E choice \in {"yes", "no", "cancel"}, api_key \in ApiKeys,
          ok \in BOOLEAN :
        /\ api' = IF api.authenticated THEN api
                  ELSE IF choice = "yes" THEN api_authenticate(api, ok)
                  ELSE IF choice = "no"
                  THEN IF api_key # ""
                       THEN api_authenticate_with_api_key(api, api_key, ok)
                       ELSE api
                  ELSE demo_mode(api)
        /\ token_json' = IF ~api.authenticated /\ choice = "yes"
                         THEN token_after(token_json, ok) ELSE token_json
        /\ auth_log' = [logged_out |-> FALSE,
                        report |-> IF api.authenticated THEN "already"
                                   ELSE choice,
                        after_logout |-> auth_log.logged_out]
    /\ UNCHANGED <<tab, feedVars, uploaderVars, libVars, labVars, upload_calls, upload_report,
                   youtube_api, auth_status_var>>

\* update_auth_status: the text shown for the session.
update_auth_status(a, yapi) ==
    IF a.authenticated
    THEN CASE a.auth_method = "oauth" -> "OAuth - Full Access"
           [] a.auth_method = "api_key" -> "API Key - Read Only"
           [] a.auth_method = "demo" -> "Demo Mode"
           [] OTHER -> "Connected"
    ELSE IF yapi \notin {"unset", "None"} THEN "Connected"
    ELSE "Not Connected"

\* The Logout button of the settings tab (YouTube Manager, opened from the
\* upload tab): logout_youtube removes token.json and clears youtube_api.
logout_youtube ==
    /\ tab = "upload"
    /\ token_json' = FALSE
    /\ youtube_api' = "None"
    /\ auth_status_var' = update_auth_status(api, "None")
    /\ auth_log' = [auth_log EXCEPT !.logged_out = TRUE]
    /\ UNCHANGED <<tab, api, feedVars, uploaderVars, libVars, labVars, upload_calls,
                   upload_report>>

\* The files the Browse dialog offers.
BrowseNames == { <<"clip_a.mp4">>, <<"clip_b.mp4">> }

RowNames(rows) == { rows[k].filename : k \in DOMAIN rows }

\* add_video_to_upload_list: a ticked row, unless the name is listed already.
add_video_to_upload_list(rows, file_name) ==
    IF file_name \in RowNames(rows) THEN rows
    ELSE Append(rows, [filename |-> file_name, select |-> TRUE])

\* Browse: the chosen file is added to the upload table and ticked.
browse_videos_for_upload ==
    /\ tab = "upload"
    /\ \E file_name \in BrowseNames :
        /\ upload_tree' = add_video_to_upload_list(upload_tree, file_name)
        /\ selected_videos' =
             IF file_name \in RowNames(upload_tree) THEN selected_videos
             ELSE selected_videos \cup {file_name}
    /\ UNCHANGED <<video_urls, video_tree, download_btn, is_downloading,
                   video_files, disk, batches, an, dl>>
    /\ UNCHANGED <<tab, api, uploaderVars, libVars, labVars, upload_calls, upload_report,
                   token_json, youtube_api, auth_status_var, auth_log>>

\* A double click on row k of the upload table.
toggle_upload_selection(k) ==
    /\ tab = "upload"
    /\ k \in DOMAIN upload_tree
    /\ upload_tree' = [upload_tree EXCEPT ![k].select = ~@]
    /\ selected_videos' =
         IF upload_tree[k].select
         THEN selected_videos \ {upload_tree[k].filename}
         ELSE selected_videos \cup {upload_tree[k].filename}
    /\ UNCHANGED <<video_urls, video_tree, download_btn, is_downloading,
                   video_files, disk, batches, an, dl>>
    /\ UNCHANGED <<tab, api, uploaderVars, libVars, labVars, upload_calls, upload_report,
                   token_json, youtube_api, auth_status_var, auth_log>>

\* Select All: every row is ticked and its name added to selected_videos.
select_all_for_upload ==
    /\ tab = "upload"
    /\ upload_tree' = [k \in DOMAIN upload_tree |->
                         [upload_tree[k] EXCEPT !.select = TRUE]]
    /\ selected_videos' = selected_videos \cup RowNames(upload_tree)
    /\ UNCHANGED <<video_urls, video_tree, download_btn, is_downloading,
                   video_files, disk, batches, an, dl>>
    /\ UNCHANGED <<tab, api, uploaderVars, libVars, labVars, upload_calls, upload_report,
                   token_json, youtube_api, auth_status_var, auth_log>>

\* Deselect All: every row is unticked and selected_videos emptied.
deselect_all_for_upload ==
    /\ tab = "upload"
    /\ upload_tree' = [k \in DOMAIN upload_tree |->
                         [upload_tree[k] EXCEPT !.select = FALSE]]
    /\ selected_videos' = {}
    /\ UNCHANGED <<video_urls, video_tree, download_btn, is_downloading,
                   video_files, disk, batches, an, dl>>
    /\ UNCHANGED <<tab, api, uploaderVars, libVars, labVars, upload_calls, upload_report,
                   token_json, youtube_api, auth_status_var, auth_log>>

\* update_upload_count: the three upload buttons are enabled while
\* selected_videos is not empty.
upload_buttons(selected) == IF selected # {} THEN "normal" ELSE "disabled"

\* YouTubeAPI.upload_video: the result it returns, whatever the session.
api_upload_video(a) == [success |-> TRUE, video_id |-> "mock_id"]

\* The ticked rows whose file is found in one of the folders tried.
RECURSIVE selected_files(_, _)
selected_files(rows, present) ==
    IF rows = <<>> THEN <<>>
    ELSE (IF Head(rows).select /\ Head(rows).filename \in present
          THEN <<Head(rows).filename>> ELSE <<>>)
         \o selected_files(Tail(rows), present)

\* Upload Selected, enabled while a video is ticked: upload_selected_videos
\* calls upload_video for each ticked file that is found and reports the
\* counters.
upload_selected_videos ==
    /\ tab = "upload"
    /\ selected_videos # {}
    /\ \E present \in SUBSET BrowseNames :
        LET files == selected_files(upload_tree, present \cup DOMAIN disk)
            calls == [k \in DOMAIN files |->
                        [filename |-> files[k],
                         authenticated |-> api.authenticated,
                         auth_method |-> api.auth_method,
                         credentials |-> api.credentials,
                         success |-> api_upload_video(api).success]]
            won == { k \in DOMAIN calls : calls[k].success }
        IN  /\ upload_calls' = calls
            /\ upload_report' =
                 IF files = <<>> THEN upload_report
                 ELSE [successful |-> Cardinality(won),
                       failed |-> Len(calls) - Cardinality(won),
                       shown |-> TRUE]
    /\ UNCHANGED <<tab, api, feedVars, uploaderVars, libVars, labVars, token_json, youtube_api,
                   auth_status_var, auth_log>>


\* ------------------------------------------- one page, entry by entry
MaxPage == 2

\* Play addresses as a server may send them: plain http, https, http with a
\* second "http" further on, and no http at all.
ScanUrls ==
    { <<"http", "a">>, <<"http", "s", "b">>, <<"http", "a", "http">>,
      <<"a">> }

\* Entries with the nesting missing, with an empty url_list, with one
\* address, and with two.
ScanItems ==
    { [shape |-> s, url_list |-> <<>>] : s \in {"no_video", "no_url_list", "ok"} }
    \cup { [shape |-> "ok", url_list |-> <<u>>] : u \in ScanUrls }
    \cup { [shape |-> "ok", url_list |-> <<<<"http", "a">>, <<"http", "s", "b">>>>] }

\* i entries of aweme_list are done; video_url is what extract_video_url
\* returned for the last one, video_urls the list built so far.
ScanIdle ==
    [pc |-> "idle", aweme_list |-> <<>>, i |-> 0, video_url |-> NoUrl,
     video_urls |-> <<>>]

\* aweme_list = data.get('aweme_list', [])
scan_page ==
    /\ scan.pc = "idle"
    /\ \E l \in SeqsUpTo(ScanItems, MaxPage) \ {<<>>} :
        scan' = [ScanIdle EXCEPT !.pc = "loop", !.aweme_list = l]
    /\ UNCHANGED <<feedVars, uploaderVars, toolVars, labVars, curl, meta, today>>

\* Every entry gives a row.
appended_always(video_urls_, video_url) == Append(video_urls_, video_url)

\* if video_url: self.video_urls.append(video_url)
appended(video_urls_, video_url) ==
    IF video_url # NoUrl THEN Append(video_urls_, video_url) ELSE video_urls_

\* One turn of `for video in aweme_list`.
scan_entry ==
    /\ scan.pc = "loop"
    /\ scan.i < Len(scan.aweme_list)
    /\ LET video == scan.aweme_list[scan.i + 1]
           video_url == extract_video_url(video)
       IN  scan' = [scan EXCEPT !.i = @ + 1,
                                !.video_url = video_url,
                                !.video_urls = appended(@, video_url)]
    /\ UNCHANGED <<feedVars, uploaderVars, toolVars, labVars, curl, meta, today>>

\* ------------------------------------------------------------- parse_curl
MaxFlags == 2

\* URLs as sequences of pieces; the piece "'" is a quote character inside a
\* URL written between double quotes.
CurlUrls == { <<"u">>, <<"w">>, <<"u", "'", "v">> }

\* -H flags: a header name and its value.
HeaderNames == {"Accept", "Cookie"}

HeaderFlags == { <<"Accept", "a1">>, <<"Accept", "a2">>, <<"Cookie", "c1">> }

\* What the cURL box holds, stripped: nothing, or a text with or without a
\* `curl <url>` token (url <<>>: none), its -H flags in order, and its -b
\* argument ("none": no -b).
EmptyText == [empty |-> TRUE, url |-> <<>>, H |-> <<>>, b |-> "none"]

CurlTexts ==
    { EmptyText }
    \cup { [empty |-> FALSE, url |-> u, H |-> h, b |-> c] :
             u \in CurlUrls \cup {<<>>}, h \in SeqsUpTo(HeaderFlags, MaxFlags),
             c \in {"none", "c2"} }

\* headers = {}
NoHeaders == [n \in HeaderNames |-> "absent"]

\* The boxes after __init__; log is the last message logged or shown.
CurlInit ==
    [curl_text |-> EmptyText, url_var |-> <<>>, headers_text |-> NoHeaders,
     log |-> "none"]

\* Paste: the clipboard text replaces the content of the cURL box.
paste_curl ==
    /\ \E clipboard_text \in CurlTexts :
        curl' = [curl EXCEPT !.curl_text = clipboard_text, !.log = "pasted"]
    /\ UNCHANGED <<feedVars, uploaderVars, toolVars, labVars, scan, meta, today>>

\* Clear
clear_curl ==
    /\ curl' = [curl EXCEPT !.curl_text = EmptyText, !.log = "cleared"]
    /\ UNCHANGED <<feedVars, uploaderVars, toolVars, labVars, scan, meta, today>>

\* re.search(r"curl ['\"]([^'\"]+)['\"]", ...), then r"curl ([^\s]+)": the
\* group of a quoted URL ends at the first quote character.
RECURSIVE url_match(_)
url_match(url) ==
    IF url = <<>> \/ Head(url) = "'" THEN <<>>
    ELSE <<Head(url)>> \o url_match(Tail(url))

\* for header_name, header_value in header_matches: headers[name] = value
RECURSIVE header_matches(_)
header_matches(H) ==
    IF H = <<>> THEN NoHeaders
    ELSE [header_matches(SubSeq(H, 1, Len(H) - 1))
            EXCEPT ![H[Len(H)][1]] = H[Len(H)][2]]

\* if cookie_match: headers['Cookie'] = cookie_string
cookie_match(headers, b) ==
    IF b # "none" THEN [headers EXCEPT !["Cookie"] = b] ELSE headers

\* Parse: parse_curl.
parse_curl ==
    /\ LET curl_text == curl.curl_text
           headers == cookie_match(header_matches(curl_text.H), curl_text.b)
       IN  curl' =
             IF curl_text.empty THEN [curl EXCEPT !.log = "error"]
             ELSE [curl EXCEPT
                     !.url_var = IF curl_text.url # <<>>
                                 THEN url_match(curl_text.url) ELSE @,
                     !.headers_text = IF headers # NoHeaders THEN headers
                                      ELSE @,
                     !.log = IF headers # NoHeaders THEN "headers"
                             ELSE "no_headers"]
    /\ UNCHANGED <<feedVars, uploaderVars, toolVars, labVars, scan, meta, today>>

\* ------------------------------------------------- the snippet of an upload
TitleLimit == 100
TitleKeep == 97
DescriptionLimit == 5000
DescriptionKeep == 4997
TagLimit == 30

\* A string is the sequence of its characters.
Rep(c, n) == [k \in 1..n |-> c]

Marker == <<".", ".", ".">>

\* Titles around the limit: plain ones, one that holds "short", and one that
\* ends with the marker already.
Titles ==
    { Rep("a", n) : n \in {0, 3, 92, 93, 97, 100, 101, 104} }
    \cup { Rep("a", 90) \o <<"S", "h", "o", "r", "t">>,
           Rep("a", 97) \o <<"s", "h", "o", "r", "t">>,
           Rep("a", 97) \o Marker, Rep("a", 98) \o Marker }

Descriptions ==
    { Rep("d", n) : n \in {0, 10, 4800, 4997, 5000, 5001} }

\* Tag lists: none, one naming Shorts twice, and numbered ones around the
\* limit.
Tags ==
    { <<"Shorts", "x", "Shorts">> }
    \cup { [k \in 1..n |-> ToString(k)] : n \in {0, 22, 24, 27, 29, 30, 31} }

\* title[:97] + "..." without the marker.
clean_title_cut(title) ==
    IF Len(title) > TitleLimit THEN SubSeq(title, 1, TitleLimit) ELSE title

\* if len(title) > 100: title = title[:97] + "..."
clean_title(title) ==
    IF Len(title) > TitleLimit THEN SubSeq(title, 1, TitleKeep) \o Marker
    ELSE title

\* if len(description) > 5000: description = description[:4997] + "..."
clean_description(description) ==
    IF Len(description) > DescriptionLimit
    THEN SubSeq(description, 1, DescriptionKeep) \o Marker
    ELSE description

\* tags[:30]
first_tags(tags) == SubSeq(tags, 1, Min(Len(tags), TagLimit))

\* What a call has at hand right before the cleaning (shaped_*) and what it
\* puts in body['snippet'].
MetaIdle ==
    [pc |-> "idle", title |-> <<>>, description |-> <<>>, tags |-> <<>>,
     shaped_title |-> <<>>, shaped_description |-> <<>>, shaped_tags |-> <<>>,
     snippet |-> [title |-> <<>>, description |-> <<>>, tags |-> <<>>]]

Snippet(title, description, tags) ==
    [title |-> title, description |-> description, tags |-> tags]

Sent(variant, title, description, tags, shaped) ==
    [pc |-> variant, title |-> title, description |-> description,
     tags |-> tags, shaped_title |-> shaped.title,
     shaped_description |-> shaped.description, shaped_tags |-> shaped.tags,
     snippet |-> Snippet(clean_title(shaped.title),
                         clean_description(shaped.description),
                         first_tags(shaped.tags))]

\* upload_video: the arguments go to the snippet as they are.
upload_video_body ==
    /\ meta.pc = "idle"
    /\ \E title \in Titles, description \in Descriptions, tags \in Tags :
        meta' = Sent("upload_video", title, description, tags,
                     Snippet(title, description, tags))
    /\ UNCHANGED <<feedVars, uploaderVars, toolVars, labVars, scan, curl, today>>

\* The lines upload_optimized_video adds to the description of an optimized
\* file (the figures vary in length) and the three tags it adds.
QualityNote == Rep("q", 110)

QualityTags == <<"optimized", "high_quality", "youtube_optimized">>

\* upload_optimized_video: an optimized file gets three tags and the note.
upload_optimized_video_body ==
    /\ meta.pc = "idle"
    /\ \E title \in Titles, description \in Descriptions, tags \in Tags,
          optimization_info \in BOOLEAN :
        meta' = Sent("upload_optimized_video", title, description, tags,
                     IF optimization_info
                     THEN Snippet(title, description \o QualityNote,
                                  tags \o QualityTags)
                     ELSE Snippet(title, description, tags))
    /\ UNCHANGED <<feedVars, uploaderVars, toolVars, labVars, scan, curl, today>>

ShortsTags ==
    <<"Shorts", "YouTubeShorts", "Short", "Vertical", "QuickVideo", "Mobile">>

\* str.lower() on the characters used.
lower(c) == IF c = "S" THEN "s" ELSE c

\* "short" in title.lower(); "shorts" and "#shorts" hold it.
has_shorts_keyword(title) ==
    \E k \in 1..(Len(title) - 4) :
        [j \in 1..5 |-> lower(title[k + j - 1])] = <<"s", "h", "o", "r", "t">>

\* title = f"{title} #Shorts"
shorts_title(title) ==
    IF has_shorts_keyword(title) THEN title
    ELSE title \o <<" ", "#", "S", "h", "o", "r", "t", "s">>

\* The description of a Shorts upload: a blank line after a given one, the
\* two hashtag lines, the line on the analysis, duration and size.
shorts_description(description, is_shorts) ==
    (IF description # <<>> THEN description \o <<"\n", "\n">> ELSE description)
    \o Rep("#", 76) \o (IF is_shorts THEN Rep("o", 31) ELSE Rep("m", 24))
    \o Rep("i", 34)

\* One order of list(set(tags)): first occurrences, in order.
RECURSIVE dedup(_)
dedup(tags) ==
    IF tags = <<>> THEN <<>>
    ELSE LET front == dedup(SubSeq(tags, 1, Len(tags) - 1))
             last == tags[Len(tags)]
         IN  IF \E k \in DOMAIN front : front[k] = last THEN front
             ELSE Append(front, last)

reversed(s) == [k \in 1..Len(s) |-> s[Len(s) + 1 - k]]

\* upload_shorts_video: list(set(tags)) lists the distinct tags in an order
\* of the interpreter's choosing; two orders stand for them all.
upload_shorts_video_body ==
    /\ meta.pc = "idle"
    /\ \E title \in Titles, description \in Descriptions, tags \in Tags,
          is_shorts \in BOOLEAN, backwards \in BOOLEAN :
        LET distinct == dedup(tags \o ShortsTags)
        IN  meta' = Sent("upload_shorts_video", title, description, tags,
                         Snippet(shorts_title(title),
                                 shorts_description(description, is_shorts),
                                 IF backwards THEN reversed(distinct)
                                 ELSE distinct))
    /\ UNCHANGED <<feedVars, uploaderVars, toolVars, labVars, scan, curl, today>>

\* ------------------------------------------------------- today's uploads
MaxResults == 50

\* Status queries that may fail in one call.
MaxUnresolved == 1

\* The uploads playlist, newest first: entries published today, then older
\* ones.
Playlists ==
    { Rep("today", t) \o Rep("older", o) :
        t \in {0, 1, 3, 50, 51}, o \in {0, 1, 47} }

\* playlistItems().list(maxResults=50): the first page.
playlist_page(playlist) ==
    SubSeq(playlist, 1, Min(Len(playlist), MaxResults))

\* i entries of items have been looked at; video_ids are the entries kept for
\* the batched query, resolved the entries whose status was queried, failed
\* those whose query gave nothing, videos the entries returned.
TodayIdle ==
    [pc |-> "idle", impl |-> "none", items |-> <<>>, i |-> 0,
     video_ids |-> <<>>, resolved |-> {}, failed |-> {}, videos |-> <<>>]

TodayStart(impl, playlist) ==
    LET items == playlist_page(playlist)
    IN  [TodayIdle EXCEPT !.impl = impl, !.items = items,
                          !.pc = IF items = <<>> THEN "done" ELSE "loop"]

\* today_start <= published_at <= today_end
published_today(item) == item = "today"

\* A traversal that never breaks.
past_today_never(item) == FALSE

\* if published_at < today_start: break
past_today(item) == item = "older"

\* YouTubeUploader.get_todays_uploads up to its loop.
get_todays_uploads ==
    /\ today.pc = "idle"
    /\ \E playlist \in Playlists : today' = TodayStart("uploader", playlist)
    /\ UNCHANGED <<feedVars, uploaderVars, toolVars, labVars, scan, curl, meta>>

\* One turn of its loop: an entry of today is resolved with
\* check_video_status and listed when that succeeds; an older one ends the
\* loop.
get_todays_uploads_item ==
    /\ today.pc = "loop" /\ today.impl = "uploader"
    /\ LET k == today.i + 1
           item == today.items[k]
           last == k = Len(today.items)
       IN  \E success \in BOOLEAN :
            /\ ~success => /\ published_today(item)
                           /\ Cardinality(today.failed) < MaxUnresolved
            /\ today' =
                 IF published_today(item)
                 THEN [today EXCEPT
                         !.i = k,
                         !.resolved = @ \cup {k},
                         !.failed = IF success THEN @ ELSE @ \cup {k},
                         !.videos = IF success THEN Append(@, k) ELSE @,
                         !.pc = IF last THEN "done" ELSE @]
                 ELSE [today EXCEPT
                         !.i = k,
                         !.pc = IF past_today(item) \/ last THEN "done"
                                ELSE @]
    /\ UNCHANGED <<feedVars, uploaderVars, toolVars, labVars, scan, curl, meta>>

\* YouTubeAPI.get_todays_uploads with OAuth credentials, up to its loop.
api_get_todays_uploads ==
    /\ today.pc = "idle"
    /\ \E playlist \in Playlists : today' = TodayStart("api", playlist)
    /\ UNCHANGED <<feedVars, uploaderVars, toolVars, labVars, scan, curl, meta>>

\* The subsets of S of at most n elements.
RECURSIVE UpTo(_, _)
UpTo(S, n) ==
    IF n = 0 THEN {{}}
    ELSE LET P == UpTo(S, n - 1)
         IN  P \cup { p \cup {x} : p \in P, x \in S }

\* The entries of ids the batched videos().list answers for.
answered(ids, failed) == SelectSeq(ids, LAMBDA k : k \notin failed)

\* One turn of its loop: pub_date >= today keeps the entry; after the last
\* entry, the ids kept are resolved with one videos().list.
api_get_todays_uploads_item ==
    /\ today.pc = "loop" /\ today.impl = "api"
    /\ LET k == today.i + 1
           item == today.items[k]
           ids == IF published_today(item) THEN Append(today.video_ids, k)
                  ELSE today.video_ids
       IN  IF k < Len(today.items)
           THEN today' = [today EXCEPT !.i = k, !.video_ids = ids]
           ELSE \E failed \in UpTo({ ids[j] : j \in DOMAIN ids },
                                    MaxUnresolved) :
                   /\ today' = [today EXCEPT
                                  !.i = k, !.video_ids = ids,
                                  !.resolved = { ids[j] : j \in DOMAIN ids },
                                  !.failed = failed,
                                  !.videos = answered(ids, failed),
                                  !.pc = "done"]
    /\ UNCHANGED <<feedVars, uploaderVars, toolVars, labVars, scan, curl, meta>>

\* ------------------------------------------------------- an upload batch
MaxFiles == 2

\* What one upload call of a batch does: it raises, returns a failure result,
\* or returns a success result, with or without a video id.
UploadResults == {"raises", "failure", "success_no_id", "success"}

\* What the check_video_status that follows a success with an id does: it
\* raises, returns a failure result, or answers with an upload status of
\* failed, a processing status of processing, a rejection reason, or none of
\* the three.
StatusChecks ==
    {"raises", "unsuccessful", "failed", "processing", "rejected", "uploaded"}

NoReport == [shown |-> FALSE, successful |-> 0, failed |-> 0]

BatchIdle ==
    [pc |-> "idle", variant |-> "none", total |-> 0, i |-> 0,
     successful |-> 0, failed |-> 0, outcomes |-> <<>>, report |-> NoReport]

\* Upload Selected with `total` ticked files found on disk; without one the
\* handler returns before the loop.
upload_selected_start ==
    /\ batch.pc \in {"idle", "done"}
    /\ \E total \in 1..MaxFiles :
         batch' = [BatchIdle EXCEPT !.pc = "loop", !.variant = "selected",
                                    !.total = total]
    /\ UNCHANGED <<feedVars, uploaderVars, toolVars, libVars, opt, presets, tagbatch>>

\* Upload as Shorts with `total` ticked files found on disk.
upload_shorts_start ==
    /\ batch.pc \in {"idle", "done"}
    /\ \E total \in 0..MaxFiles :
         batch' = [BatchIdle EXCEPT !.pc = "loop", !.variant = "shorts",
                                    !.total = total]
    /\ UNCHANGED <<feedVars, uploaderVars, toolVars, libVars, opt, presets, tagbatch>>

\* result['success'] of a result that was returned.
result_success(upload) == upload \in {"success_no_id", "success"}

\* The counters after the upload call of one item: successful += 1 on a
\* success result, failed += 1 on a failure result and in the except branch.
counted(c, upload) ==
    IF result_success(upload)
    THEN [c EXCEPT !.successful = @ + 1]
    ELSE [c EXCEPT !.failed = @ + 1]

reclassified_half(c, check) ==
    IF check = "failed" THEN [c EXCEPT !.failed = @ + 1] ELSE c

\* The counters after the status check of an uploaded item: an upload status
\* of failed takes the success back and counts a failure.
reclassified(c, check) ==
    IF check = "failed"
    THEN [c EXCEPT !.successful = @ - 1, !.failed = @ + 1]
    ELSE c

\* One iteration of the loop of upload_selected_videos.
upload_selected_item ==
    /\ batch.pc = "loop"
    /\ batch.variant = "selected"
    /\ batch.i < batch.total
    /\ \E upload \in UploadResults :
       \E check \in IF upload = "success" THEN StatusChecks ELSE {"none"} :
         LET c == reclassified(counted(batch, upload), check)
         IN  batch' = [c EXCEPT !.i = @ + 1,
                                !.outcomes = Append(@, <<upload, check>>)]
    /\ UNCHANGED <<feedVars, uploaderVars, toolVars, libVars, opt, presets, tagbatch>>

\* One iteration of the loop of upload_as_shorts_thread: no status check.
upload_shorts_item ==
    /\ batch.pc = "loop"
    /\ batch.variant = "shorts"
    /\ batch.i < batch.total
    /\ \E upload \in UploadResults \ {"success_no_id"} :
         batch' = [counted(batch, upload) EXCEPT
                     !.i = @ + 1,
                     !.outcomes = Append(@, <<upload, "none">>)]
    /\ UNCHANGED <<feedVars, uploaderVars, toolVars, libVars, opt, presets, tagbatch>>

\* The end of the loop: the summary shows the two counters.
upload_summary ==
    /\ batch.pc = "loop"
    /\ batch.i = batch.total
    /\ batch' = [batch EXCEPT !.pc = "done",
                              !.report = [shown |-> TRUE,
                                          successful |-> batch.successful,
                                          failed |-> batch.failed]]
    /\ UNCHANGED <<feedVars, uploaderVars, toolVars, libVars, opt, presets, tagbatch>>

\* ------------------------------------------------- upload_optimized_video
\* File names as <<base, extension>>, the way os.path.splitext cuts them.
VideoFiles == { <<"a", ".mp4">>, <<"b", ".mov">> }

MissingFile == <<"c", ".mp4">>

\* f"{base}_optimized_yt{ext}"
_get_optimized_filename(original_file) ==
    <<original_file[1] \o "_optimized_yt", original_file[2]>>

\* What the re-encoding run does: the tool is missing, or it exits with zero,
\* exits with another code or is stopped by the timeout, each having written
\* an output file or not.
Encodes ==
    {[kind |-> "tool_missing", output |-> FALSE]}
    \cup [kind : {"exit_zero", "exit_nonzero", "timeout"}, output : BOOLEAN]

NoEncode == [kind |-> "none", output |-> FALSE]

OptIdle ==
    [pc |-> "idle", disk |-> VideoFiles, video_file |-> MissingFile,
     existed |-> FALSE, attempted |-> FALSE, encode |-> NoEncode,
     found |-> FALSE, success |-> FALSE, upload_file |-> MissingFile,
     upload |-> "none", raised |-> "none"]

\* optimization_result['success'] of optimize_video_for_youtube: only for
\* exit code zero with the output file in place; every failure is returned,
\* none raised.
optimize_video_for_youtube(encode, found) == encode.kind = "exit_zero" /\ found

upload_file_optimized(video_file, success) == _get_optimized_filename(video_file)

\* The file handed to MediaFileUpload.
upload_file_after(video_file, success) ==
    IF success THEN _get_optimized_filename(video_file) ELSE video_file

\* The files on disk after the clean-up that follows _resumable_upload: the
\* branch of a returned result removes the upload file when optimization_info
\* is set, the except branch whenever the upload file is not the original;
\* a failing os.remove is swallowed.
cleaned(disk_, video_file, upload_file, info, upload, remove_ok) ==
    IF /\ upload = "raises" \/ info
       /\ upload_file # video_file
       /\ upload_file \in disk_
       /\ remove_ok
    THEN disk_ \ {upload_file}
    ELSE disk_

\* One call of upload_optimized_video(video_file, ...); the files of earlier
\* calls are still where those calls left them.
upload_optimized_video ==
    /\ opt.pc \in {"idle", "done"}
    /\ \E authenticated \in BOOLEAN, video_file \in VideoFiles \cup {MissingFile} :
         LET start == [OptIdle EXCEPT !.pc = "done", !.disk = opt.disk,
                                      !.video_file = video_file,
                                      !.existed = video_file \in opt.disk]
         IN  IF ~authenticated \/ video_file \notin opt.disk
             THEN opt' = [start EXCEPT !.raised = "precondition"]
             ELSE \E optimize_quality \in BOOLEAN,
                     analysis \in {"raises", "good", "poor"},
                     encode \in Encodes,
                     upload \in {"success", "failure", "raises"},
                     remove_ok \in BOOLEAN :
                    LET attempted == optimize_quality /\ analysis = "poor"
                        optimized_file == _get_optimized_filename(video_file)
                        disk1 == IF attempted /\ encode.output
                                 THEN opt.disk \cup {optimized_file}
                                 ELSE opt.disk
                        found == attempted /\ optimized_file \in disk1
                        success ==
                            attempted /\ optimize_video_for_youtube(encode, found)
                        upload_file == upload_file_after(video_file, success)
                    IN  opt' = [start EXCEPT
                                  !.attempted = attempted,
                                  !.encode = IF attempted THEN encode ELSE @,
                                  !.found = found,
                                  !.success = success,
                                  !.upload_file = upload_file,
                                  !.upload = upload,
                                  !.raised = IF upload = "raises"
                                             THEN "upload" ELSE "none",
                                  !.disk = cleaned(disk1, video_file,
                                                   upload_file, success,
                                                   upload, remove_ok)]
    /\ UNCHANGED <<feedVars, uploaderVars, toolVars, libVars, batch, presets, tagbatch>>

\* --------------------------------------------------- the quality presets
\* self.video_quality_settings as __init__ builds it; bitrate_factor in
\* tenths.
QualitySettings ==
    [high_quality |->
        [video_codec |-> "h264", audio_codec |-> "aac", crf |-> 18,
         preset |-> "slow", bitrate_factor |-> 15],
     youtube_optimized |->
        [video_codec |-> "h264", audio_codec |-> "aac", crf |-> 20,
         preset |-> "medium", bitrate_factor |-> 12],
     fast_upload |->
        [video_codec |-> "h264", audio_codec |-> "aac", crf |-> 23,
         preset |-> "fast", bitrate_factor |-> 10]]

PresetNames == DOMAIN QualitySettings

\* custom_settings: None or an empty dict, or a dict that overrides some keys.
NoCustom == [k \in {} |-> 0]

CustomSettings ==
    { NoCustom, [crf |-> 28], [preset |-> "ultrafast"],
      [crf |-> 28, preset |-> "ultrafast"] }

PresetsInit ==
    [video_quality_settings |-> QualitySettings, pc |-> "idle",
     quality_preset |-> "youtube_optimized", custom_settings |-> NoCustom,
     settings |-> QualitySettings.youtube_optimized]

\* The key of the dict that .get(quality_preset, default) hands out.
settings_key(quality_preset) ==
    IF quality_preset \in PresetNames THEN quality_preset
    ELSE "youtube_optimized"

\* settings.update(custom_settings): settings is the dict stored under the
\* key, not a copy of it.
settings_updated(stored, custom_settings) ==
    IF custom_settings # NoCustom THEN custom_settings @@ stored ELSE stored

\* optimize_video_for_youtube up to the FFmpeg command: the settings it
\* encodes with. A missing input file returns before the settings are read.
optimize_video_settings ==
    /\ \E input_exists \in BOOLEAN,
          quality_preset \in PresetNames \cup {"high"},
          custom_settings \in CustomSettings :
         IF ~input_exists
         THEN presets' = [presets EXCEPT !.pc = "not_found"]
         ELSE LET key == settings_key(quality_preset)
                  settings == settings_updated(
                                  presets.video_quality_settings[key],
                                  custom_settings)
              IN  presets' =
                    [video_quality_settings |->
                        [presets.video_quality_settings EXCEPT ![key] = settings],
                     pc |-> "encoded",
                     quality_preset |-> quality_preset,
                     custom_settings |-> custom_settings,
                     settings |-> settings]
    /\ UNCHANGED <<feedVars, uploaderVars, toolVars, libVars, batch, opt, tagbatch>>

\* ------------------------------------------- the tags list of a batch
\* What the user typed in the tags field, split at the commas.
UserTags == { <<>>, <<"douyin">>, <<"douyin", "video">>, <<"a", "b", "c">> }

TagBatchIdle ==
    [pc |-> "idle", user_tags |-> <<>>, tags |-> <<>>,
     quality_preset |-> "youtube_optimized", total |-> 0, sent |-> <<>>]

\* upload_optimized_videos_thread and upload_as_shorts_thread up to their
\* loop: the tags list is built once, before the loop.
upload_batch_tags(variant) ==
    /\ tagbatch.pc = "idle" \/ Len(tagbatch.sent) = tagbatch.total
    /\ \E user_tags \in UserTags, quality_preset \in PresetNames,
          total \in 1..MaxFiles :
         tagbatch' = [TagBatchIdle EXCEPT !.pc = variant,
                                          !.user_tags = user_tags,
                                          !.tags = user_tags,
                                          !.quality_preset = quality_preset,
                                          !.total = total]
    /\ UNCHANGED <<feedVars, uploaderVars, toolVars, libVars, batch, opt, presets>>

\* tags.extend(['optimized', 'high_quality', quality_preset]) on the list
\* the caller passed, when the file was re-encoded.
tags_extended(tags, optimization_info, quality_preset) ==
    IF optimization_info
    THEN tags \o <<"optimized", "high_quality", quality_preset>>
    ELSE tags

\* One upload_optimized_video call of the batch, re-encoded or not: the tags
\* it sends and the list it leaves to the caller.
upload_optimized_tags ==
    /\ tagbatch.pc = "optimized"
    /\ Len(tagbatch.sent) < tagbatch.total
    /\ \E optimization_info \in BOOLEAN :
         LET tags == tags_extended(tagbatch.tags, optimization_info,
                                   tagbatch.quality_preset)
         IN  tagbatch' =
               [tagbatch EXCEPT
                  !.tags = tags,
                  !.sent = Append(@, [optimized |-> optimization_info,
                                      tags |-> first_tags(tags)])]
    /\ UNCHANGED <<feedVars, uploaderVars, toolVars, libVars, batch, opt, presets>>

\* One upload_shorts_video call of the batch: tags.extend(shorts_tags) on the
\* caller's list, then the distinct tags are sent.
upload_shorts_tags ==
    /\ tagbatch.pc = "shorts"
    /\ Len(tagbatch.sent) < tagbatch.total
    /\ LET tags == tagbatch.tags \o ShortsTags
       IN  tagbatch' =
             [tagbatch EXCEPT
                !.tags = tags,
                !.sent = Append(@, [optimized |-> FALSE,
                                    tags |-> first_tags(dedup(tags))])]
    /\ UNCHANGED <<feedVars, uploaderVars, toolVars, libVars, batch, opt, presets>>

InitLab ==
    /\ batch = BatchIdle
    /\ opt = OptIdle
    /\ presets = PresetsInit
    /\ tagbatch = TagBatchIdle

InitLib ==
    /\ scan = ScanIdle
    /\ curl = CurlInit
    /\ meta = MetaIdle
    /\ today = TodayIdle

\* ---------------------------------------------------------- specifications
Init == InitFeed /\ InitUploader /\ InitTool /\ InitLib /\ InitLab

\* The download tab as the window allows it: Analyze can be clicked at any
\* time, Download All whenever its button is enabled.
Next ==
    \/ \E t \in AThreads : analyze_url_thread(t) \/ analyze_page(t)
    \/ \E t \in DThreads : download_videos_thread(t) \/ Download(t)

Spec == Init /\ [][Next]_vars

\* The download tab of a user who starts an operation only when none is
\* running.
NextSeq ==
    \/ \E t \in AThreads : (Quiet /\ analyze_url_thread(t)) \/ analyze_page(t)
    \/ \E t \in DThreads : (Quiet /\ download_videos_thread(t)) \/ Download(t)

SpecSeq == Init /\ [][NextSeq]_vars

\* A YouTubeUploader and its caller.
NextUpload == authenticate \/ upload_video \/ next_chunk

SpecUpload == Init /\ [][NextUpload]_vars

\* The upload tab: logging in, filling the upload table, Upload Selected.
NextTool ==
    \/ \E tab_name \in {"download", "upload"} : switch_tab(tab_name)
    \/ authenticate_youtube
    \/ logout_youtube
    \/ browse_videos_for_upload
    \/ \E k \in 1..Cardinality(BrowseNames) : toggle_upload_selection(k)
    \/ upload_selected_videos

SpecTool == Init /\ [][NextTool]_vars

\* The two tabs of a user who waits for a running analysis or download before
\* leaving the download tab: downloads refresh the upload table, Browse adds
\* to it, rows are ticked and unticked.
NextList ==
    \/ tab = "download" /\ NextSeq
    \/ /\ Quiet
       /\ \/ \E tab_name \in {"download", "upload"} : switch_tab(tab_name)
          \/ browse_videos_for_upload
          \/ \E k \in DOMAIN upload_tree : toggle_upload_selection(k)
          \/ select_all_for_upload
          \/ deselect_all_for_upload

SpecList == Init /\ [][NextList]_vars

\* One page of the feed taken through the entry loop.
NextScan == scan_page \/ scan_entry

SpecScan == Init /\ [][NextScan]_vars

\* The cURL box and its three buttons.
NextCurl == paste_curl \/ clear_curl \/ parse_curl

SpecCurl == Init /\ [][NextCurl]_vars

\* The snippet built by each upload variant.
NextMeta ==
    \/ upload_video_body
    \/ upload_optimized_video_body
    \/ upload_shorts_video_body

SpecMeta == Init /\ [][NextMeta]_vars

\* One today's-uploads query, by either class.
NextToday ==
    \/ get_todays_uploads
    \/ get_todays_uploads_item
    \/ api_get_todays_uploads
    \/ api_get_todays_uploads_item

SpecToday == Init /\ [][NextToday]_vars

\* One upload batch, Upload Selected or Upload as Shorts.
NextBatch ==
    \/ upload_selected_start
    \/ upload_shorts_start
    \/ upload_selected_item
    \/ upload_shorts_item
    \/ upload_summary

SpecBatch == Init /\ [][NextBatch]_vars

\* Calls of upload_optimized_video, one after the other.
NextOpt == upload_optimized_video

SpecOpt == Init /\ [][NextOpt]_vars

\* Calls of optimize_video_for_youtube on one uploader.
NextPresets == optimize_video_settings

SpecPresets == Init /\ [][NextPresets]_vars

\* A batch of optimized uploads or of Shorts uploads with one tags list.
NextTags ==
    \/ \E variant \in {"optimized", "shorts"} : upload_batch_tags(variant)
    \/ upload_optimized_tags
    \/ upload_shorts_tags

SpecTags == Init /\ [][NextTags]_vars

\* ------------------------------------------------- properties: the feed
\* C1. In a run of analyze_url whose fetches all give a page with aweme_list,
\* the number of page requests is min(5, k), k the first page answered without
\* has_more: no request follows that page, and there is never a sixth.
C1_PageRequests ==
    \A t \in AThreads :
        /\ an[t].reqs <= PageCap
        /\ an[t].pc = "fetch" => an[t].first_no_more = 0
        /\ (an[t].pc = "done" /\ an[t].all_ok) =>
              an[t].reqs = IF an[t].first_no_more = 0 THEN PageCap
                           ELSE Min(PageCap, an[t].first_no_more)

\* A run that was told has_more on every page and stopped at the cap.
C1_Witness ==
    \E t \in AThreads :
        /\ an[t].pc = "done" /\ an[t].all_ok
        /\ an[t].first_no_more = 0 /\ an[t].reqs = PageCap

\* ---------------------------------------------- properties: the downloader
Failures(attempts) == { k \in DOMAIN attempts : ~attempts[k] }

\* C6. A batch over N references attempts every one of them whatever fails:
\* each failed item counts as exactly one failure, and the batch ends with
\* successful + failed = N.
C6_FailureIsolation ==
    \A t \in DThreads :
        /\ Running(dl[t].pc) =>
              /\ Len(dl[t].attempts) = dl[t].i
              /\ dl[t].successful + dl[t].failed = dl[t].i
        /\ dl[t].pc = "done" =>
              /\ Len(dl[t].attempts) = Len(video_urls)
              /\ dl[t].failed = Cardinality(Failures(dl[t].attempts))
              /\ dl[t].successful + dl[t].failed = Len(video_urls)

\* A finished batch of two whose first item failed and whose second was
\* still downloaded.
C6_Witness ==
    \E t \in DThreads :
        /\ dl[t].pc = "done"
        /\ dl[t].attempts = <<FALSE, TRUE>>
        /\ dl[t].failed = 1 /\ dl[t].successful = 1

\* The download_single_video call of thread t returns in this step.
Returns(t) ==
    /\ dl[t].pc = "request"
    /\ Len(dl'[t].attempts) = Len(dl[t].attempts) + 1

\* C7. video_files gets a record only from a download whose answer had status
\* 200 and was written in full, and a failed or partial download adds none.
C7_RecordOnlyAfterFullWrite ==
    [][ /\ video_files' # video_files =>
              \E t \in DThreads :
                  LET filename == filename_of(dl[t].i)
                  IN  /\ Returns(t)
                      /\ dl'[t].attempts[Len(dl'[t].attempts)]
                      /\ filename \in DOMAIN disk'
                      /\ disk'[filename] = "full"
                      /\ video_files' =
                            Append(video_files, [filename |-> filename])
        /\ \A t \in DThreads :
              (Returns(t) /\ ~dl'[t].attempts[Len(dl'[t].attempts)])
                  => video_files' = video_files ]_vars

\* A partial file lies in the folder without a record, next to a recorded one.
C7_Witness ==
    /\ video_files # <<>>
    /\ \E f \in DOMAIN disk :
          /\ disk[f] = "partial"
          /\ \A k \in DOMAIN video_files : video_files[k].filename # f

\* C8. At any moment at most one video download is in flight.
C8_OneAtATime ==
    Cardinality({ t \in DThreads : dl[t].pc = "request" }) <= 1

\* C9. The discovered references carry the indices 1..N in discovery order,
\* without gap or duplicate; the reference at position i is the one written to
\* video_{i:03d}.mp4, and distinct positions have distinct filenames.
C9_DenseIndices ==
    /\ [](/\ video_tree = [k \in 1..Len(video_urls) |-> k]
          /\ \A i, j \in 0..(Len(video_urls) - 1) :
                /\ Len(format_03d(i + 1)) = 3
                /\ i # j => filename_of(i) # filename_of(j))
    /\ [][ \A t \in DThreads :
              Returns(t) =>
                  /\ dl[t].url = video_urls[dl[t].i + 1]
                  /\ \A f \in DOMAIN disk' :
                        f # filename_of(dl[t].i) =>
                            f \in DOMAIN disk /\ disk'[f] = disk[f] ]_vars

\* The second reference is being downloaded, the first one is on disk.
C9_Witness ==
    \E t \in DThreads :
        /\ dl[t].pc = "request" /\ dl[t].i = 1
        /\ dl[t].url = video_urls[2]
        /\ filename_of(0) \in DOMAIN disk

\* C13. The first request of a run carries max_cursor 0 and every later one
\* the max_cursor of the page received just before it; the cursor the loop
\* holds is 0 before the first page and the last page's value after it.
C13_CursorChain ==
    \A t \in AThreads :
        /\ an[t].cursor_ok
        /\ an[t].reqs = 0 => an[t].max_cursor = 0
        /\ an[t].pc = "fetch" /\ an[t].reqs >= 1 =>
              an[t].max_cursor = an[t].body

\* Two requests were made, the second with the first page's cursor, and the
\* third is due with the cursor 7 of the second page.
C13_Witness ==
    \E t \in AThreads :
        /\ an[t].pc = "fetch" /\ an[t].reqs = 2
        /\ an[t].cursor_ok /\ an[t].max_cursor = 7

\* C16. A run goes on to another request only while every fetch gave a page
\* with aweme_list; the step in which a fetch fails or gives no aweme_list
\* ends the run and leaves video_urls and the result table as they were.
C16_FetchFailureEndsRun ==
    /\ [](\A t \in AThreads : an[t].pc = "fetch" => an[t].all_ok)
    /\ [][\A t \in AThreads :
            an[t].pc = "fetch" /\ an[t].all_ok /\ ~an'[t].all_ok =>
                /\ an'[t].pc = "done"
                /\ an'[t].reqs = an[t].reqs + 1
                /\ video_urls' = video_urls
                /\ video_tree' = video_tree]_vars

\* A run ended by a failed second fetch: the reference of its first page is
\* still listed.
C16_Witness ==
    \E t \in AThreads :
        /\ an[t].pc = "done" /\ ~an[t].all_ok /\ an[t].reqs = 2
        /\ video_urls # <<>>

\* An entry with a non-empty video.play_addr.url_list.
HasUrlList(video) == video.shape = "ok" /\ video.url_list # <<>>

AfterScheme(url) ==
    IF startswith_https(url) THEN SubSeq(url, 3, Len(url))
    ELSE IF url # <<>> /\ url[1] = "http" THEN SubSeq(url, 2, Len(url))
    ELSE url

\* C15. A URL returned by extract_video_url starts with https; it is the
\* first entry of url_list itself when that starts with https, and has the
\* same text after the scheme otherwise.
C15_OnlySchemeForced ==
    scan.i >= 1 /\ scan.video_url # NoUrl =>
        LET url == scan.aweme_list[scan.i].url_list[1]
        IN  /\ startswith_https(scan.video_url)
            /\ startswith_https(url) => scan.video_url = url
            /\ AfterScheme(scan.video_url) = AfterScheme(url)

\* C25. Once a download batch is over, the upload table lists the files that
\* were downloaded, each once and ticked, however many analyze and download
\* runs came before.
C25_CandidatesAreDownloads ==
    (~is_downloading /\ batches > 0) =>
        /\ \A j, k \in DOMAIN upload_tree :
              upload_tree[j].filename = upload_tree[k].filename => j = k
        /\ \A k \in DOMAIN upload_tree : upload_tree[k].select
        /\ RowNames(upload_tree)
              = { video_files[k].filename : k \in DOMAIN video_files }
        /\ selected_videos = RowNames(upload_tree)

\* C26. The list of discovered URLs changes only in the step that ends an
\* analysis, which publishes its whole result at once, and never while a
\* download batch is going through the list.
C26_AtomicPublication ==
    [][video_urls' # video_urls =>
         /\ \A t \in DThreads : ~Running(dl[t].pc)
         /\ \E t \in AThreads : Running(an[t].pc) /\ an'[t].pc = "done"]_vars

\* C27. While is_downloading is set the Download All button is disabled, at
\* most one batch is running, and is_downloading is set exactly while a batch
\* is running.
C27_ButtonOffWhileDownloading ==
    /\ is_downloading => download_btn = "disabled"
    /\ Cardinality({ t \in DThreads : Running(dl[t].pc) }) <= 1
    /\ is_downloading = (\E t \in DThreads : Running(dl[t].pc))

\* ----------------------------------------------- properties: parse_curl
\* A step of parse_curl that changes anything.
ParseStep == curl' # curl /\ curl'.log \notin {"pasted", "cleared"}

\* C17. A parse_curl that finds no URL token shows an error and leaves the
\* URL field and the headers box as they were.
C17_NoUrlNoTemplate ==
    [][ParseStep /\ curl.curl_text.url = <<>> =>
          /\ curl'.log = "error"
          /\ curl'.url_var = curl.url_var
          /\ curl'.headers_text = curl.headers_text]_vars

\* The value the command gives header n: the -b argument for Cookie when
\* there is one, else the value of the last -H flag of that name.
CommandHeader(text, n) ==
    LET at == { k \in DOMAIN text.H : text.H[k][1] = n }
    IN  IF n = "Cookie" /\ text.b # "none" THEN text.b
        ELSE IF at = {} THEN "absent"
        ELSE text.H[CHOOSE k \in at : \A j \in at : j <= k][2]

\* C18. After parse_curl on a command with a URL, the URL field holds that
\* URL and the headers box holds exactly the headers of the command: one
\* entry per name, the last -H flag of a name winning, -b winning for Cookie.
C18_TemplateOfCommand ==
    [][ParseStep /\ curl.curl_text.url # <<>> =>
          /\ curl'.url_var = curl.curl_text.url
          /\ \A n \in HeaderNames :
                curl'.headers_text[n] = CommandHeader(curl.curl_text, n)]_vars

\* ------------------------------------------------- properties: metadata
\* A string of at most limit characters stays; a longer one becomes limit
\* characters, the first limit - 3 of it and the marker.
Truncated(sent, shaped, limit) ==
    IF Len(shaped) <= limit THEN sent = shaped
    ELSE /\ Len(sent) = limit
         /\ SubSeq(sent, limit - 2, limit) = Marker
         /\ SubSeq(sent, 1, limit - 3) = SubSeq(shaped, 1, limit - 3)

\* C19. In each upload variant the title sent is the shaped title when that
\* has at most 100 characters and else 100 characters ending in "...", the
\* description likewise with 5000, and the tags are the first 30 of the
\* shaped list; cleaning what was sent again changes nothing.
C19_Truncation ==
    meta.pc # "idle" =>
        /\ Truncated(meta.snippet.title, meta.shaped_title, 100)
        /\ Truncated(meta.snippet.description, meta.shaped_description, 5000)
        /\ Len(meta.snippet.tags) <= 30
        /\ \A k \in 1..30 :
              k <= Len(meta.shaped_tags) =>
                  /\ k <= Len(meta.snippet.tags)
                  /\ meta.snippet.tags[k] = meta.shaped_tags[k]
        /\ clean_title(meta.snippet.title) = meta.snippet.title
        /\ clean_description(meta.snippet.description)
             = meta.snippet.description
        /\ first_tags(meta.snippet.tags) = meta.snippet.tags

\* A Shorts upload whose shaped title, description and tags were all over
\* the limits.
C19_Witness ==
    /\ meta.pc = "upload_shorts_video"
    /\ Len(meta.shaped_title) > 100 /\ Len(meta.snippet.title) = 100
    /\ Len(meta.shaped_description) > 5000
    /\ Len(meta.shaped_tags) > 30 /\ Len(meta.snippet.tags) = 30

\* "#shorts" in title.lower()
HasShortsMarker(title) ==
    \E k \in 1..(Len(title) - 6) :
        [j \in 1..7 |-> lower(title[k + j - 1])]
            = <<"#", "s", "h", "o", "r", "t", "s">>

\* C24. The title a Shorts upload sends carries the #Shorts marker, and a
\* title that came with the marker is not given a second one.
C24_ShortsMarkerSent ==
    meta.pc = "upload_shorts_video" =>
        /\ HasShortsMarker(meta.snippet.title)
        /\ HasShortsMarker(meta.title) => meta.shaped_title = meta.title

\* -------------------------------------------- properties: today's uploads
\* The position of the first entry published before today (past the page
\* when there is none).
FirstOlder(items) ==
    LET older == { k \in DOMAIN items : items[k] = "older" }
    IN  IF older = {} THEN Len(items) + 1
        ELSE CHOOSE k \in older : \A j \in older : k <= j

\* The entries of today among the first n, in page order, but for `except`.
TodayEntries(items, except) ==
    SelectSeq([k \in 1..(FirstOlder(items) - 1) |-> k],
              LAMBDA k : k \notin except)

\* C20 as stated: at most 50 entries are looked at and none after the first
\* older one, no entry from the first older one on is resolved, and the
\* entries returned are exactly those published today.
C20_StopsAndReturnsToday ==
    /\ today.i <= 50
    /\ today.i <= FirstOlder(today.items)
    /\ \A k \in today.resolved : k < FirstOlder(today.items)
    /\ today.pc = "done" => today.videos = TodayEntries(today.items, {})

\* C20, amended. At most 50 entries are looked at, no entry from the first
\* older one on is resolved, and the entries returned are those published
\* today whose status query succeeded, in page order; YouTubeUploader stops
\* at the first older entry, YouTubeAPI looks at every entry of the page.
C20_ResolvesTodayOnly ==
    /\ today.i <= 50
    /\ \A k \in today.resolved : k < FirstOlder(today.items)
    /\ today.impl = "uploader" => today.i <= FirstOlder(today.items)
    /\ today.pc = "done" =>
          /\ today.videos = TodayEntries(today.items, today.failed)
          /\ today.failed \subseteq today.resolved
          /\ today.impl = "uploader" =>
                today.i = Min(Len(today.items), FirstOlder(today.items))
          /\ today.impl = "api" => today.i = Len(today.items)

\* YouTubeUploader is done with a page of 50 whose first 3 entries are of
\* today: it looked at 4 entries, resolved 3 and returned them.
C20_Witness ==
    /\ today.pc = "done" /\ today.impl = "uploader"
    /\ Len(today.items) = 50 /\ FirstOlder(today.items) = 4
    /\ today.i = 4 /\ today.resolved = {1, 2, 3}
    /\ today.videos = <<1, 2, 3>>

\* ------------------------------------------------ properties: the uploader
Is503(o) == o.kind = "http" /\ o.status = 503

All503(chunks) == \A k \in DOMAIN chunks : Is503(chunks[k])

LastChunk == up.chunks[Len(up.chunks)]

\* C2 as stated. When next_chunk answers 503 twice and then completes, the
\* result is a success after at most 5 calls; when it answers 503 every
\* time, the result is a failure after exactly 5 calls.
C2_FiveCalls ==
    (up.pc = "done" /\ All503(up.chunks)) =>
        (~up.result.success /\ Len(up.chunks) = 5)

\* C2 as amended. When next_chunk answers 503 twice and then returns a
\* response with an id, the upload ends after exactly 3 calls, with a success
\* unless the follow-up query finds no item; when it answers 503 every time,
\* the result is a failure after exactly 6 calls: the first and 5 retries.
C2_SixCalls ==
    /\ (up.pc = "chunk" /\ All503(up.chunks)) => Len(up.chunks) <= MaxRetries
    /\ (up.pc = "done" /\ All503(up.chunks)) =>
          /\ ~up.result.success
          /\ up.result.error[1] = "Max retries exceeded: "
          /\ Len(up.chunks) = MaxRetries + 1
    /\ (/\ up.pc = "done" /\ Len(up.chunks) >= 3
        /\ Is503(up.chunks[1]) /\ Is503(up.chunks[2])
        /\ up.chunks[3].kind = "id") =>
          /\ Len(up.chunks) = 3
          /\ up.result.success = (up.followup # "empty")

\* An upload given up after 503 on every call.
C2_Witness ==
    /\ up.pc = "done" /\ All503(up.chunks)
    /\ Len(up.chunks) = 6 /\ ~up.result.success

\* C3 as stated. Every HTTP error with a status in 500..599 is retried: it
\* ends the upload only when the retries are used up.
C3_Every5xxRetried ==
    (/\ up.pc = "done" /\ LastChunk.kind = "http"
     /\ LastChunk.status \in 500..599) => up.retry > MaxRetries

Retried(o) == o.kind = "http" /\ o.status \in {500, 502, 503, 504}

\* C3 as amended. An HTTP error with status 500, 502, 503 or 504 is retried
\* after a backoff while retries are left; any other HTTP error, 5xx or not,
\* and any other exception end the upload at once with success = false and
\* an error text that holds the original message.
C3_FourStatusesRetried ==
    /\ \A k \in 1..(Len(up.chunks) - 1) :
          Retried(up.chunks[k]) \/ up.chunks[k].kind = "progress"
    /\ up.retry = Cardinality({ k \in DOMAIN up.chunks : Retried(up.chunks[k]) })
    /\ (up.pc = "chunk" /\ up.chunks # <<>> /\ Retried(LastChunk)) =>
          up.backoff = pow2(up.retry)
    /\ (up.pc = "done" /\ Retried(LastChunk)) =>
          /\ up.retry = MaxRetries + 1
          /\ up.result = Failure("Max retries exceeded: ", LastChunk)
    /\ (up.pc = "done" /\ LastChunk.kind = "http" /\ ~Retried(LastChunk)) =>
          up.result = Failure("HTTP Error: ", LastChunk)
    /\ (up.pc = "done" /\ LastChunk.kind = "exception") =>
          up.result = Failure("Unexpected error: ", LastChunk)

\* A 502 was retried, the 501 after it ended the upload.
C3_Witness ==
    /\ up.pc = "done" /\ Len(up.chunks) = 2
    /\ up.chunks[1].status = 502 /\ up.chunks[2].status = 501
    /\ up.backoff = 2
    /\ up.result = Failure("HTTP Error: ", up.chunks[2])

\* C4. A response with an id is followed by the status query and reported as
\* a success with that id, with a warning when the query failed: no outcome
\* with an id is reported as success = false.
C4_IdMeansSuccess ==
    (up.pc = "done" /\ LastChunk.kind = "id") =>
        /\ up.followup # "none"
        /\ up.result.success /\ up.result.video_id = "id"
        /\ up.followup = "raises" => up.result.warning

\* C5. Every call of an upload operation ends by returning a result that
\* carries a success flag.
C5_AlwaysAResult ==
    up.pc \in {"done", "raised"} => up.result.returned

\* ---------------------------------------------- properties: the upload tab
\* The names of the rows shown as ticked.
Ticked(rows) == { rows[k].filename : k \in { j \in DOMAIN rows : rows[j].select } }

\* C29. selected_videos is the set of the names of the ticked rows, so the
\* upload buttons are enabled exactly when a row is ticked.
C29_SelectedAreTicked ==
    /\ selected_videos = Ticked(upload_tree)
    /\ (upload_buttons(selected_videos) = "normal") = (Ticked(upload_tree) # {})

C11_AuthSingleSource ==
    IF api.authenticated
    THEN /\ api.auth_method \in {"oauth", "api_key", "demo"}
         /\ (api.auth_method = "demo") = (api.youtube = "demo_service")
         /\ (api.auth_method = "oauth") = api.credentials
    ELSE api = ApiInit

\* C12. From a logout to the next authenticate_youtube there is no token and
\* the session is unauthenticated, and an authenticate_youtube that follows a
\* logout does not answer that the session is authenticated already.
C12_LogoutForcesFreshLogin ==
    /\ auth_log.logged_out => ~token_json /\ ~api.authenticated
    /\ auth_log.after_logout => auth_log.report # "already"

\* --------------------------------------------- properties: an upload batch
\* C21. In an upload batch every file found is attempted whatever happened to
\* the files before it, and the two counters are never negative and add up to
\* the number of files attempted, also after a status check took a success
\* back; the summary shows these counters once all files were attempted.
C21_BatchCounters ==
    /\ batch.successful >= 0
    /\ batch.failed >= 0
    /\ batch.i = Len(batch.outcomes)
    /\ batch.successful + batch.failed = batch.i
    /\ batch.report.shown =>
         /\ batch.i = batch.total
         /\ batch.report.successful = batch.successful
         /\ batch.report.failed = batch.failed

\* A finished batch whose first file raised, whose second was uploaded and
\* then found failed by the status check.
C21_Witness ==
    /\ batch.report.shown
    /\ batch.variant = "selected"
    /\ batch.outcomes = << <<"raises", "none">>, <<"success", "failed">> >>

\* ------------------------------------- properties: upload_optimized_video
\* C22. When the re-encoding was attempted and failed (tool missing, exit code
\* not zero, timeout, no output file), the original file is the one uploaded
\* and the call raises only what the upload itself raised; the re-encoded file
\* is uploaded only when the re-encoding reported success.
C22_FallbackToOriginal ==
    opt.pc = "done" /\ opt.raised # "precondition" =>
        /\ (opt.attempted /\ (opt.encode.kind # "exit_zero" \/ ~opt.found)) =>
              /\ ~opt.success
              /\ opt.upload_file = opt.video_file
              /\ opt.raised # "none" => opt.upload = "raises"
        /\ opt.upload_file # opt.video_file =>
              /\ opt.attempted /\ opt.success
              /\ opt.upload_file = _get_optimized_filename(opt.video_file)

\* A call whose re-encoding timed out and whose upload of the original
\* succeeded.
C22_Witness ==
    /\ opt.pc = "done"
    /\ opt.attempted
    /\ opt.encode.kind = "timeout"
    /\ opt.upload_file = opt.video_file
    /\ opt.upload = "success"
    /\ opt.raised = "none"

\* C23. After upload_optimized_video finished, by returning or by raising, the
\* original file is still there and no re-encoded file written by the call is
\* left on disk.
C23_NoTemporaryLeft ==
    opt.pc = "done" =>
        /\ opt.existed => opt.video_file \in opt.disk
        /\ (opt.attempted /\ opt.encode.output) =>
              _get_optimized_filename(opt.video_file) \notin opt.disk

\* ------------------------------------------ properties: the quality presets
\* C28. A call that names one of the three presets and gives no custom
\* settings encodes with the parameters that preset had at construction,
\* whatever calls came before.
C28_PresetsFixed ==
    (/\ presets.pc = "encoded"
     /\ presets.quality_preset \in PresetNames
     /\ presets.custom_settings = NoCustom) =>
        presets.settings = QualitySettings[presets.quality_preset]

\* ------------------------------------------ properties: the tags of a batch
\* C30. The uploads leave the caller's tags list as it was, and a file that
\* was not re-encoded is not sent with the tags optimized, high_quality or the
\* preset name.
C30_TagsOfOwnOutcome ==
    /\ tagbatch.tags = tagbatch.user_tags
    /\ \A k \in DOMAIN tagbatch.sent :
         (tagbatch.pc = "optimized" /\ ~tagbatch.sent[k].optimized) =>
            \A j \in DOMAIN tagbatch.sent[k].tags :
               tagbatch.sent[k].tags[j]
                  \notin {"optimized", "high_quality", tagbatch.quality_preset}

====
